---------------------------- MODULE Spec2Model ----------------------------
(***************************************************************************)
(* A model of src/app.py, the Santorini seismic dashboard:                 *)
(*   fetch_data    HTTP fetch, table extraction, column alignment, filter  *)
(*   generate_plot timestamp / magnitude parsing and the quadratic trend   *)
(*   main          the page script, its session state and its buttons      *)
(* together with the st.cache_data memoization of fetch_data.              *)
(*                                                                         *)
(* Text is a sequence of characters; a character is its Unicode code       *)
(* point (48..57 are the digits, 920 942 961 945 962 spell the Greek       *)
(* token of line 60).  The bytes of the fetched page are decoded as        *)
(* ISO-8859-7 (line 29).                                                   *)
(***************************************************************************)
EXTENDS Integers, Sequences, FiniteSets, TLC

(***************************************************************************)
(* Bounds of the model.                                                    *)
(***************************************************************************)
\* Longest table (number of tr elements) of a generated document.
MaxRows == 3
\* Cap of the per-range counter of executions of fetch_data's body.
MaxRuns == 2

(***************************************************************************)
(* Program constants.                                                      *)
(***************************************************************************)
\* DATA_URLS (lines 12-16): the three time ranges, in insertion order.
DATA_URLS ==
  <<[key |-> "Last 2 Days",  url |-> "recent_eq_2d_el.htm"],
    [key |-> "Last 10 Days", url |-> "recent_eq_10d_el.htm"],
    [key |-> "Last 20 Days", url |-> "recent_eq_20d_el.htm"]>>

Keys == {DATA_URLS[i].key : i \in 1..Len(DATA_URLS)}

\* Python's None, as the value of session_state.selected_time_range.
None == "None"

\* expected_columns (line 51).
expected_columns ==
  <<"Origin Time (GMT)", "Epicenter", "Latitude", "Longitude",
    "Depth (km)", "Magnitude">>

\* The literal of line 60: Theta eta-tonos rho alpha final-sigma.
LocationToken == <<920, 942, 961, 945, 962>>

\* The literal of line 61: the depth bound, in km.
MaxDepthKm == 100

\* The literal of line 36: tables[2] needs three tables.
MinTables == 3

\* The literal of line 52: row[2:] drops two leading cells.
ColumnOffset == 2

\* The degree of the fit of line 74.
PolyDegree == 2

(***************************************************************************)
(* Text helpers.                                                           *)
(***************************************************************************)
\* A missing cell: the None pandas pads a short row with (line 52).
NoneCell == <<-1>>

IsDigit(c) == c \in 48..57

\* The characters str.strip() removes (those that can occur in the page).
IsSpace(c) == c \in {9, 10, 11, 12, 13, 32, 160}

\* bytes.decode('iso-8859-7') on one byte (line 29 sets the encoding that
\* response.text of line 34 uses): ASCII and the Latin-1 punctuation keep
\* their value, the Greek block 0xB4..0xFE moves to U+0384..U+03CE.
DecodeByte(b) ==
  IF b \in ({180, 181, 182, 184, 185, 186, 188} \cup (190..254))
  THEN b + 720
  ELSE b

Decode(bytes) == [i \in 1..Len(bytes) |-> DecodeByte(bytes[i])]

RECURSIVE LStrip(_)
LStrip(s) ==
  IF s # <<>> /\ IsSpace(Head(s)) THEN LStrip(Tail(s)) ELSE s

RECURSIVE RStrip(_)
RStrip(s) ==
  IF s # <<>> /\ IsSpace(s[Len(s)])
  THEN RStrip(SubSeq(s, 1, Len(s) - 1))
  ELSE s

\* str.strip(), which get_text(strip=True) applies (line 43).
Strip(s) == LStrip(RStrip(s))

\* Series.str.contains(pat, na=False) for a pattern without regex
\* metacharacters: pat occurs in s, compared character by character.
Contains(s, pat) ==
  /\ s # NoneCell
  /\ \E i \in 0..(Len(s) - Len(pat)) : SubSeq(s, i + 1, i + Len(pat)) = pat

RECURSIVE DigitsVal(_)
DigitsVal(s) ==
  IF s = <<>> THEN 0
  ELSE 10 * DigitsVal(SubSeq(s, 1, Len(s) - 1)) + (s[Len(s)] - 48)

RECURSIVE Pow10(_)
Pow10(n) == IF n = 0 THEN 1 ELSE 10 * Pow10(n - 1)

\* A decimal literal [sign] digits [. digits] with at least one digit, as
\* float() and pandas.to_numeric read it: ok says whether it parses, and
\* the value is m / 10^e.
ParseDec(s) ==
  LET signed == s # <<>> /\ Head(s) \in {43, 45}
      body   == IF signed THEN Tail(s) ELSE s
      dots   == {i \in 1..Len(body) : body[i] = 46}
      digs   == SelectSeq(body, IsDigit)
      ok     == /\ s # NoneCell
                /\ Cardinality(dots) <= 1
                /\ Len(digs) >= 1
                /\ Len(digs) + Cardinality(dots) = Len(body)
      e      == IF dots = {} THEN 0 ELSE Len(body) - (CHOOSE i \in dots : TRUE)
      m      == IF signed /\ Head(s) = 45 THEN 0 - DigitsVal(digs)
                ELSE DigitsVal(digs)
  IN  IF ok THEN [ok |-> TRUE, m |-> m, e |-> e]
      ELSE [ok |-> FALSE, m |-> 0, e |-> 0]

\* A float: NaN, or m / 10^e.
NaN == [nan |-> TRUE, m |-> 0, e |-> 0]

Num(p) == [nan |-> FALSE, m |-> p.m, e |-> p.e]

\* A variant of line 61 that fills the unparsable values with 0.
to_numeric_fill0(s) ==
  LET p == ParseDec(s)
  IN  IF p.ok THEN Num(p) ELSE [nan |-> FALSE, m |-> 0, e |-> 0]

\* pd.to_numeric(..., errors='coerce') on one value (line 61): a missing
\* or unparsable value becomes NaN.
to_numeric(s) ==
  LET p == ParseDec(s) IN IF p.ok THEN Num(p) ELSE NaN

\* x < n for a float x and an integer n; a comparison with NaN is False.
LessThan(x, n) == ~x.nan /\ x.m < n * Pow10(x.e)


(***************************************************************************)
(* datetime.strptime(ts, '%d/%m/%Y %H:%M:%S') (line 68).                   *)
(***************************************************************************)
RECURSIVE DigitRun(_, _)
\* The number of consecutive digits of s from position i on.
DigitRun(s, i) ==
  IF i <= Len(s) /\ IsDigit(s[i]) THEN 1 + DigitRun(s, i + 1) ELSE 0

RECURSIVE SpaceRun(_, _)
\* The number of consecutive whitespace characters of s from position i on.
SpaceRun(s, i) ==
  IF i <= Len(s) /\ IsSpace(s[i]) THEN 1 + SpaceRun(s, i + 1) ELSE 0

IsLeap(y) == (y % 4 = 0 /\ y % 100 # 0) \/ y % 400 = 0

DaysIn(mo, y) ==
  IF mo = 2 THEN (IF IsLeap(y) THEN 29 ELSE 28)
  ELSE IF mo \in {4, 6, 9, 11} THEN 30 ELSE 31

\* The directives %d %m %H %M %S match one or two digits and %Y exactly
\* four; the blank of the format matches a run of whitespace; the whole
\* string must be consumed, and datetime() then checks the calendar.
strptime(ts) ==
  LET At(i, c) == i <= Len(ts) /\ ts[i] = c
      Val(i, n) == DigitsVal(SubSeq(ts, i, i + n - 1))
      nd  == DigitRun(ts, 1)
      im  == nd + 2
      nm  == DigitRun(ts, im)
      iy  == im + nm + 1
      ny  == DigitRun(ts, iy)
      nw  == SpaceRun(ts, iy + ny)
      ih  == iy + ny + nw
      nh  == DigitRun(ts, ih)
      imi == ih + nh + 1
      nmi == DigitRun(ts, imi)
      is  == imi + nmi + 1
      ns  == DigitRun(ts, is)
      shape == /\ ts # NoneCell
               /\ nd \in 1..2 /\ At(nd + 1, 47)
               /\ nm \in 1..2 /\ At(im + nm, 47)
               /\ ny = 4 /\ nw >= 1
               /\ nh \in 1..2 /\ At(ih + nh, 58)
               /\ nmi \in 1..2 /\ At(imi + nmi, 58)
               /\ ns \in 1..2 /\ is + ns = Len(ts) + 1
      d  == Val(1, nd)
      mo == Val(im, nm)
      y  == Val(iy, ny)
      h  == Val(ih, nh)
      mi == Val(imi, nmi)
      sec == Val(is, ns)
      ok == /\ shape
            /\ y >= 1 /\ mo \in 1..12 /\ d >= 1 /\ d <= DaysIn(mo, y)
            /\ h <= 23 /\ mi <= 59 /\ sec <= 59
  IN  IF ok THEN [ok |-> TRUE, t |-> <<y, mo, d, h, mi, sec>>]
      ELSE [ok |-> FALSE, t |-> <<>>]

(***************************************************************************)
(* The rows of the model's documents.  Texts are ISO-8859-7 bytes.         *)
(***************************************************************************)
Td(bytes) == [tag |-> "td", text |-> bytes]

Th(bytes) == [tag |-> "th", text |-> bytes]

\* "10/05/2024 12:00:00"
TimeA == <<49,48,47,48,53,47,50,48,50,52,32,49,50,58,48,48,58,48,48>>
\* "9/5/2024 8:30:00"
TimeB == <<57,47,53,47,50,48,50,52,32,56,58,51,48,58,48,48>>
\* "2024-05-10 12:00:00", not in the day/month/year format
TimeIso == <<50,48,50,52,45,48,53,45,49,48,32,49,50,58,48,48,58,48,48>>
\* "BA Thiras" in Greek capitals and small letters: contains the token
EpiThiras == <<194,193,32,200,222,241,225,242>>
\* the same with a small theta: differs from the token by case only
EpiLower == <<194,193,32,232,222,241,225,242>>
\* " 5 ", "99.9", "100", "N/A"
DepthShallow == <<32,53,32>>
DepthBelow == <<57,57,46,57>>
DepthAtBound == <<49,48,48>>
TextNA == <<78,47,65>>
\* "3.1", "4"
MagA == <<51,46,49>>
MagB == <<52>>

\* A tr of eight td cells: a sequence number, a region label, and the six
\* fields in the order of expected_columns.
EventRow(ts, epi, depth, mag) ==
  <<Td(<<49>>), Td(<<45>>), Td(ts), Td(epi),
    Td(<<51,54,46,52>>), Td(<<50,53,46,52>>), Td(depth), Td(mag)>>

HeaderTh == [i \in 1..8 |-> Th(<<104>>)]
HeaderTd == [i \in 1..8 |-> Td(<<104>>)]
RowA == EventRow(TimeA, EpiThiras, DepthShallow, MagA)
RowB == EventRow(TimeB, EpiThiras, DepthBelow, MagB)
RowAtBound == EventRow(TimeA, EpiThiras, DepthAtBound, MagA)
RowLower == EventRow(TimeA, EpiLower, DepthShallow, MagA)
RowNoDepth == EventRow(TimeA, EpiThiras, TextNA, MagB)
RowBadMag == EventRow(TimeA, EpiThiras, DepthShallow, TextNA)
RowBadTime == EventRow(TimeIso, EpiThiras, DepthShallow, MagA)
RowShort == SubSeq(RowB, 1, 7)
RowLong == RowA \o <<Td(<<120>>)>>
RowNoCells == <<>>

\* A document names its rows; this is the tr element a name stands for.
RowNamed(name) ==
  CASE name = "HeaderTh" -> HeaderTh
    [] name = "HeaderTd" -> HeaderTd
    [] name = "RowA" -> RowA
    [] name = "RowB" -> RowB
    [] name = "RowAtBound" -> RowAtBound
    [] name = "RowLower" -> RowLower
    [] name = "RowNoDepth" -> RowNoDepth
    [] name = "RowBadMag" -> RowBadMag
    [] name = "RowBadTime" -> RowBadTime
    [] name = "RowShort" -> RowShort
    [] name = "RowLong" -> RowLong
    [] name = "RowNoCells" -> RowNoCells

\* table.find_all('tr') (line 42): the tr elements of a table.
find_all_tr(table) == [i \in 1..Len(table) |-> RowNamed(table[i])]

(***************************************************************************)
(* fetch_data (lines 19-63), without its cache.                            *)
(*                                                                         *)
(* A document is what requests.get returns for the URL: status "error"     *)
(* stands for a RequestException (no connection, or an HTTP error status   *)
(* that raise_for_status turns into one); otherwise tables holds the       *)
(* table elements in document order, each the sequence of the names of     *)
(* its tr elements.  A tr is a sequence of cells [tag, text] with text     *)
(* the bytes of the cell.                                                  *)
(***************************************************************************)
\* A value fetch_data returns, or the exception that leaves it.
ReturnNone(msg) == [kind |-> "None", error |-> msg, rows |-> <<>>]

ReturnFrame(rows) == [kind |-> "df", error |-> "", rows |-> rows]

Raise(exc) == [kind |-> "raise", error |-> exc, rows |-> <<>>]

\* The position of a column of expected_columns.
Col(name) == CHOOSE i \in 1..Len(expected_columns) : expected_columns[i] = name

IsTd(cell) == cell.tag = "td"

\* Line 43: the stripped texts of the td cells of one tr.
row_data(tr) ==
  LET tds == SelectSeq(tr, IsTd)
  IN  [i \in 1..Len(tds) |-> Strip(Decode(tds[i].text))]

\* A variant of line 42 without the [1:].
RowsAfterFirst_all(trs) == trs

\* Line 42: table.find_all('tr')[1:], the rows after the first.
RowsAfterFirst(trs) == IF trs = <<>> THEN <<>> ELSE Tail(trs)

NonEmptyRow(cells) == cells # <<>>

\* Lines 41-45: the list data.
ExtractData(trs) ==
  LET body == RowsAfterFirst(trs)
  IN  SelectSeq([i \in 1..Len(body) |-> row_data(body[i])], NonEmptyRow)

\* row[2:] of line 52.
DropOffset(cells) == SubSeq(cells, ColumnOffset + 1, Len(cells))

RECURSIVE MaxLen(_)
MaxLen(rows) ==
  IF rows = <<>> THEN 0
  ELSE LET h == Len(Head(rows))
           t == MaxLen(Tail(rows))
       IN  IF h > t THEN h ELSE t

\* Line 52, pd.DataFrame(list of lists, columns=...): the frame is as wide
\* as the longest list, shorter lists are padded with None, and a width
\* that differs from the number of column names raises ValueError.
\* A frame is its rows, each with its index label and its cells.
DataFrame(lists, columns) ==
  LET width == MaxLen(lists)
  IN  IF width # Len(columns) THEN Raise("ValueError")
      ELSE ReturnFrame(
             [i \in 1..Len(lists) |->
                [index |-> i - 1,
                 c |-> [j \in 1..width |->
                          IF j <= Len(lists[i]) THEN lists[i][j]
                          ELSE NoneCell]]])

\* Line 60: the mask of Series.str.contains.
EpicenterMask(r) == Contains(r.c[Col("Epicenter")], LocationToken)

\* A variant of line 61 with <= in place of <.
DepthMask_inclusive(r) ==
  LET x == to_numeric(r.c[Col("Depth (km)")])
  IN  ~x.nan /\ x.m <= MaxDepthKm * Pow10(x.e)

\* Line 61: the mask of to_numeric(...) < 100.
DepthMask(r) == LessThan(to_numeric(r.c[Col("Depth (km)")]), MaxDepthKm)

\* Lines 59-61: boolean indexing keeps the rows whose mask is True, with
\* their index labels, in the frame's order.
DomainFilter(rows) == SelectSeq(SelectSeq(rows, EpicenterMask), DepthMask)

\* Lines 51-53: the frame built from the list data.
AlignedFrame(lists) ==
  DataFrame([i \in 1..Len(lists) |-> DropOffset(lists[i])], expected_columns)

\* A variant of line 63 that returns None for an empty selection.
AlignAndFilter_noneIfEmpty(lists) ==
  LET frame == AlignedFrame(lists)
  IN  IF frame.kind = "raise" THEN frame
      ELSE IF DomainFilter(frame.rows) = <<>>
      THEN ReturnNone("No data found in the extracted table.")
      ELSE ReturnFrame(DomainFilter(frame.rows))

\* Lines 51-63, from the list data on.
AlignAndFilter(lists) ==
  LET frame == AlignedFrame(lists)
  IN  IF frame.kind = "raise" THEN frame
      ELSE IF Len(frame.rows) > 0 /\ Len(frame.rows[1].c) # Len(expected_columns)
      THEN ReturnNone("Unexpected table format.")
      ELSE ReturnFrame(DomainFilter(frame.rows))

\* A variant of lines 36-40 that is off by one in the table it takes.
ExtractAndParse_secondTable(document) ==
  IF Len(document.tables) < MinTables - 1
  THEN [data |-> <<<<NoneCell>>>>,
        result |-> ReturnNone("Insufficient tables found on the page.")]
  ELSE LET lists == ExtractData(find_all_tr(document.tables[MinTables - 1]))
       IN  [data |-> lists,
            result |-> IF lists = <<>>
                       THEN ReturnNone("No data found in the extracted table.")
                       ELSE AlignAndFilter(lists)]

\* The list data when the body returns before line 41 builds it: a value
\* no table yields (a cell's text is never the missing cell).
Unread == <<<<NoneCell>>>>

\* Lines 34-49, from the response on: the list data and what the body
\* returns.
ExtractAndParse(document) ==
  IF Len(document.tables) < MinTables
  THEN [data |-> Unread,
        result |-> ReturnNone("Insufficient tables found on the page.")]
  ELSE LET lists == ExtractData(find_all_tr(document.tables[MinTables]))
       IN  [data |-> lists,
            result |-> IF lists = <<>>
                       THEN ReturnNone("No data found in the extracted table.")
                       ELSE AlignAndFilter(lists)]

\* Lines 24-63: the body of fetch_data on the document the request gets.
fetch_body(document) ==
  IF document.status = "error"
  THEN [data |-> Unread, result |-> ReturnNone("Error fetching data")]
  ELSE ExtractAndParse(document)

(***************************************************************************)
(* generate_plot (lines 65-118).                                           *)
(***************************************************************************)
RECURSIVE IPow(_, _)
IPow(x, k) == IF k = 0 THEN 1 ELSE x * IPow(x, k - 1)

RECURSIVE PowSum(_, _)
\* The sum of x^k over the positions x = 0..n-1.
PowSum(n, k) == IF n = 0 THEN 0 ELSE PowSum(n - 1, k) + IPow(n - 1, k)

RECURSIVE Moment(_, _, _)
\* The sum of x^k * y[x] over the positions x = 0..n-1 (y[x] is ys[x+1]).
Moment(ys, n, k) ==
  IF n = 0 THEN 0 ELSE Moment(ys, n - 1, k) + IPow(n - 1, k) * ys[n]

Det3(m) ==
    m[1][1] * (m[2][2] * m[3][3] - m[2][3] * m[3][2])
  - m[1][2] * (m[2][1] * m[3][3] - m[2][3] * m[3][1])
  + m[1][3] * (m[2][1] * m[3][2] - m[2][2] * m[3][1])

RECURSIVE MaxExp(_)
MaxExp(vals) ==
  IF vals = <<>> THEN 0
  ELSE LET t == MaxExp(Tail(vals))
       IN  IF Head(vals).e > t THEN Head(vals).e ELSE t

\* Lines 74-75 for finite magnitudes at three or more positions: the
\* least-squares parabola a x^2 + b x + c over x = 0..n-1, solved from the
\* normal equations by Cramer's rule and evaluated at the same positions.
\* The magnitudes are brought to a common denominator 10^E; the values of
\* the curve are the fractions num / den.
LeastSquaresCurve(vals) ==
  LET n  == Len(vals)
      E  == MaxExp(vals)
      ys == [i \in 1..n |-> vals[i].m * Pow10(E - vals[i].e)]
      S(k) == PowSum(n, k)
      T(k) == Moment(ys, n, k)
      D  == Det3(<<<<S(4), S(3), S(2)>>, <<S(3), S(2), S(1)>>, <<S(2), S(1), S(0)>>>>)
      Da == Det3(<<<<T(2), S(3), S(2)>>, <<T(1), S(2), S(1)>>, <<T(0), S(1), S(0)>>>>)
      Db == Det3(<<<<S(4), T(2), S(2)>>, <<S(3), T(1), S(1)>>, <<S(2), T(0), S(0)>>>>)
      Dc == Det3(<<<<S(4), S(3), T(2)>>, <<S(3), S(2), T(1)>>, <<S(2), S(1), T(0)>>>>)
  IN  [i \in 1..n |->
         [nan |-> FALSE,
          num |-> Da * (i - 1) * (i - 1) + Db * (i - 1) + Dc,
          den |-> D * Pow10(E)]]

\* Lines 74-75 for two finite magnitudes: the system is rank-deficient,
\* numpy warns (RankWarning) and lstsq returns the minimum-norm parabola
\* through both points, so the curve takes the two values themselves.
InterpolatingCurve(vals) ==
  [i \in 1..Len(vals) |->
     [nan |-> FALSE, num |-> vals[i].m, den |-> Pow10(vals[i].e)]]

NaNCurve(n) == [i \in 1..n |-> [nan |-> TRUE, num |-> 0, den |-> 1]]

\* np.polyfit(range(n), magnitude, 2) then np.poly1d(...)(range(n)): the
\* outcomes numpy can produce, each a trend curve or an exception.
\*   n = 0: polyfit raises TypeError (expected non-empty vector for x);
\*   a NaN magnitude, or n = 1 (the columns x^2 and x of the Vandermonde
\*   matrix are zero, their scale is 0 and 0/0 puts NaN in the matrix):
\*   LAPACK either fails to converge (LinAlgError) or returns NaN
\*   coefficients, depending on the build;
\*   n = 2: the minimum-norm fit; n >= 3: the least-squares fit.
polyfit_trend(vals) ==
  LET n == Len(vals)
  IN  IF n = 0 THEN {[raise |-> "TypeError", curve |-> <<>>]}
      ELSE IF n = 1 \/ \E i \in 1..n : vals[i].nan
      THEN {[raise |-> "LinAlgError", curve |-> <<>>],
            [raise |-> "", curve |-> NaNCurve(n)]}
      ELSE IF n <= PolyDegree
      THEN {[raise |-> "", curve |-> InterpolatingCurve(vals)]}
      ELSE {[raise |-> "", curve |-> LeastSquaresCurve(vals)]}

\* Series.astype(float) on one value (line 69): None becomes NaN, a
\* decimal literal its value; anything else raises ValueError.
astype_float_ok(s) == s = NoneCell \/ ParseDec(s).ok

astype_float(s) == IF s = NoneCell THEN NaN ELSE Num(ParseDec(s))

OriginTime(r) == r.c[Col("Origin Time (GMT)")]

Magnitude(r) == r.c[Col("Magnitude")]

\* Lines 67-69: whether the try block completes.
ParsesCleanly(rows) ==
  \A i \in 1..Len(rows) :
     strptime(OriginTime(rows[i])).ok /\ astype_float_ok(Magnitude(rows[i]))

\* What generate_plot returns.
PlotNone == [kind |-> "None", error |-> "Error processing data",
             time |-> <<>>, magnitude |-> <<>>, trend |-> <<>>, title |-> ""]

PlotRaise(exc) == [kind |-> "raise", error |-> exc,
                   time |-> <<>>, magnitude |-> <<>>, trend |-> <<>>, title |-> ""]

PlotFigure(time, magnitude, trend, time_range) ==
  [kind |-> "fig", error |-> "", time |-> time, magnitude |-> magnitude,
   trend |-> trend, title |-> time_range]

RowParses(r) == strptime(OriginTime(r)).ok /\ astype_float_ok(Magnitude(r))

\* A variant of lines 67-72 that skips the rows it cannot parse.
generate_plot_skipRows(rows, time_range) ==
  LET good == SelectSeq(rows, RowParses)
      time == [i \in 1..Len(good) |-> strptime(OriginTime(good[i])).t]
      magnitude == [i \in 1..Len(good) |-> astype_float(Magnitude(good[i]))]
  IN  {IF f.raise # "" THEN PlotRaise(f.raise)
       ELSE PlotFigure(time, magnitude, f.curve, time_range) :
         f \in polyfit_trend(magnitude)}

\* Lines 65-118: the outcomes of generate_plot(df, time_range).
generate_plot(rows, time_range) ==
  IF ~ParsesCleanly(rows) THEN {PlotNone}
  ELSE LET time == [i \in 1..Len(rows) |-> strptime(OriginTime(rows[i])).t]
           magnitude == [i \in 1..Len(rows) |-> astype_float(Magnitude(rows[i]))]
       IN  {IF f.raise # "" THEN PlotRaise(f.raise)
            ELSE PlotFigure(time, magnitude, f.curve, time_range) :
              f \in polyfit_trend(magnitude)}

\* Lines 132-143 of main: what the page shows for the frame fetch_data
\* returned.  fig is what generate_plot returned ("skipped" when it is
\* not called), chart the figure handed to st.plotly_chart, and raised
\* says that an exception left generate_plot and ended the script run.
NoFigure == [kind |-> "skipped", error |-> "", time |-> <<>>,
             magnitude |-> <<>>, trend |-> <<>>, title |-> ""]

show_plot(df, time_range) ==
  IF df.kind = "df" /\ df.rows # <<>>
  THEN {[fig |-> f,
         chart |-> IF f.kind = "fig" THEN f ELSE NoFigure,
         raised |-> f.kind = "raise"] : f \in generate_plot(df.rows, time_range)}
  ELSE {[fig |-> NoFigure, chart |-> NoFigure, raised |-> FALSE]}

(***************************************************************************)
(* The documents of the model.                                             *)
(***************************************************************************)
RowSamples ==
  {"HeaderTh", "HeaderTd", "RowA", "RowB", "RowAtBound", "RowLower",
   "RowNoDepth", "RowBadMag", "RowBadTime", "RowShort", "RowLong",
   "RowNoCells"}

\* A table other than the third: it holds rows that would pass the filter.
DecoyTable == <<"HeaderTh", "RowA">>

TablesUpTo(n) == UNION {[1..k -> RowSamples] : k \in 0..n}

FailedRequest == [status |-> "error", tables |-> <<>>]

PageWith(table) == [status |-> "ok", tables |-> <<DecoyTable, DecoyTable, table>>]

\* The documents of the pipeline specification: a failed request, pages
\* with fewer than three tables, pages whose third table is any sequence
\* of at most MaxRows sample rows, and a page with a fourth table.
Docs ==
  {FailedRequest}
  \cup {[status |-> "ok", tables |-> [i \in 1..k |-> DecoyTable]] : k \in 0..(MinTables - 1)}
  \cup {PageWith(t) : t \in TablesUpTo(MaxRows)}
  \cup {[status |-> "ok", tables |-> <<DecoyTable, DecoyTable, <<"HeaderTd", "RowB">>, DecoyTable>>]}

\* The documents the site serves in the application specification.
UiDocs ==
  {FailedRequest,
   PageWith(<<"HeaderTd", "RowA", "RowB">>),
   PageWith(<<"HeaderTd", "RowLower">>),
   PageWith(<<"HeaderTd", "RowBadMag">>),
   PageWith(<<"HeaderTd", "RowLong">>)}

(***************************************************************************)
(* State.                                                                  *)
(***************************************************************************)
VARIABLES
  session_state,  \* st.session_state: a set of <<key, value>> pairs
  buttons,        \* the buttons the last script run rendered
  queued,         \* st.rerun() was called: a rerun of the script is due
  cache,          \* st.cache_data's entries for fetch_data, by time range
  body_runs,      \* history: executions of fetch_data's body, by time range
  call,           \* history: the fetch_data call of the last script run
  event,          \* history: what started the last script run
  first_result,   \* history: what the first call returned, by time range
  doc,            \* the document the body of fetch_data fetched
  data,           \* the list data of lines 41-45 in that execution
  df,             \* what fetch_data returned (or the exception it raised)
  fig,            \* what generate_plot returned (or the exception it raised)
  chart,          \* the figure handed to st.plotly_chart
  stage           \* "app", or the step of the pipeline specification

vars ==
  <<session_state, buttons, queued, cache, body_runs, call, event,
    first_result, doc, data, df, fig, chart, stage>>

NoDoc == [status |-> "none", tables |-> <<>>]

NotFetched == [kind |-> "unset", error |-> "", rows |-> <<>>]

Miss == [kind |-> "miss", error |-> "", rows |-> <<>>]

NoCall == [key |-> "", executed |-> FALSE]

NoButton == <<"", "">>

BackButton == <<"Back to Selection", "">>

GenerateButton(time_range) == <<"Generate Plot", time_range>>

(***************************************************************************)
(* fetch_data with its decorator (line 18).  st.cache_data keeps the       *)
(* value a call returns, None included, under the call's argument and      *)
(* returns it to every later call; it keeps nothing when the body raises.  *)
(***************************************************************************)
fetch_data(time_range) ==
  IF cache[time_range].kind # "miss"
  THEN {[executed |-> FALSE, doc |-> NoDoc, data |-> Unread,
         result |-> cache[time_range]]}
  ELSE {[executed |-> TRUE, doc |-> d, data |-> fetch_body(d).data,
         result |-> fetch_body(d).result] : d \in UiDocs}

\* The call of line 130.  Line 24 looks the range up in DATA_URLS first.
call_fetch_data(time_range) ==
  IF time_range \notin Keys
  THEN {[executed |-> TRUE, doc |-> NoDoc, data |-> Unread,
         result |-> Raise("KeyError")]}
  ELSE fetch_data(time_range)

\* The entry st.cache_data holds after a call.
cache_after(time_range, c) ==
  IF c.executed /\ c.result.kind # "raise" /\ time_range \in Keys
  THEN [cache EXCEPT ![time_range] = c.result]
  ELSE cache

(***************************************************************************)
(* main (lines 120-156): one run of the script.                            *)
(***************************************************************************)
HasSelection(ss) == \E p \in ss : p[1] = "selected_time_range"

Selected(ss) == (CHOOSE p \in ss : p[1] = "selected_time_range")[2]

Store(value) == {<<"selected_time_range", value>>}

\* Line 127: the truth value of the selection.
Truthy(value) == value \notin {None, ""}

\* A variant of line 155 that stores the loop's other variable, url.
SelectedValue_url(entry) == entry.url

\* Line 155: the value a Generate Plot button stores.
SelectedValue(entry) == entry.key

\* Line 147: the value the Back button stores.
BackValue == None

\* An exception ends the run: nothing below the failing line is rendered.
Aborted(ss) ==
  /\ session_state' = ss
  /\ buttons' = {}
  /\ queued' = FALSE

\* Lines 128-148.
FullScreen(ss, time_range, pressed) ==
  \E c \in call_fetch_data(time_range) :
    /\ (c.executed /\ time_range \in Keys) => body_runs[time_range] < MaxRuns
    /\ cache' = cache_after(time_range, c)
    /\ body_runs' = IF c.executed /\ time_range \in Keys
                    THEN [body_runs EXCEPT ![time_range] = @ + 1]
                    ELSE body_runs
    /\ call' = [key |-> time_range, executed |-> c.executed]
    /\ first_result' = IF time_range \in Keys /\ first_result[time_range] = Miss
                       THEN [first_result EXCEPT ![time_range] = c.result]
                       ELSE first_result
    /\ doc' = c.doc
    /\ data' = c.data
    /\ df' = c.result
    /\ IF c.result.kind = "raise"
       THEN fig' = NoFigure /\ chart' = NoFigure /\ Aborted(ss)
       ELSE \E s \in show_plot(c.result, time_range) :
              /\ fig' = s.fig
              /\ chart' = s.chart
              /\ IF s.raised THEN Aborted(ss)
                 ELSE /\ buttons' = {BackButton}
                      /\ IF pressed = BackButton
                         THEN session_state' = Store(BackValue) /\ queued' = TRUE
                         ELSE session_state' = ss /\ queued' = FALSE

\* The position of the Generate Plot button that was pressed, 0 if none.
PressedAt(pressed) ==
  IF \E i \in 1..Len(DATA_URLS) : pressed = GenerateButton(DATA_URLS[i].key)
  THEN CHOOSE i \in 1..Len(DATA_URLS) : pressed = GenerateButton(DATA_URLS[i].key)
  ELSE 0

\* Lines 150-156: the buttons are rendered in the order of DATA_URLS, and
\* the pressed one stores its range and stops the run with st.rerun().
SelectionPage(ss, pressed) ==
  LET i == PressedAt(pressed)
  IN  /\ IF i = 0
         THEN /\ session_state' = ss
              /\ queued' = FALSE
              /\ buttons' = {GenerateButton(k) : k \in Keys}
         ELSE /\ session_state' = Store(SelectedValue(DATA_URLS[i]))
              /\ queued' = TRUE
              /\ buttons' = {GenerateButton(DATA_URLS[j].key) : j \in 1..i}
      /\ call' = NoCall
      /\ doc' = NoDoc
      /\ data' = Unread
      /\ df' = NotFetched
      /\ fig' = NoFigure
      /\ chart' = NoFigure
      /\ UNCHANGED <<cache, body_runs, first_result>>

\* Lines 120-156, started in session state ss0 with the button pressed.
main(ss0, pressed, why) ==
  LET ss == IF HasSelection(ss0) THEN ss0 ELSE Store(None)
      time_range == Selected(ss)
  IN  /\ event' = [type |-> why, button |-> pressed]
      /\ stage' = stage
      /\ IF Truthy(time_range)
         THEN FullScreen(ss, time_range, pressed)
         ELSE SelectionPage(ss, pressed)

(***************************************************************************)
(* The application: what starts a run of the script.                       *)
(***************************************************************************)
\* A browser opens (or reloads) the page: a new session, and its first run.
Load ==
  /\ stage = "app"
  /\ ~queued
  /\ main({}, NoButton, "load")

\* The user presses a button of the page.
Click ==
  /\ stage = "app"
  /\ ~queued
  /\ \E b \in buttons : main(session_state, b, "click")

\* The rerun st.rerun() asked for (lines 148 and 156).
Rerun ==
  /\ stage = "app"
  /\ queued
  /\ main(session_state, NoButton, "rerun")

Init ==
  /\ session_state = {}
  /\ buttons = {}
  /\ queued = FALSE
  /\ cache = [k \in Keys |-> Miss]
  /\ body_runs = [k \in Keys |-> 0]
  /\ call = NoCall
  /\ event = [type |-> "start", button |-> NoButton]
  /\ first_result = [k \in Keys |-> Miss]
  /\ doc = NoDoc
  /\ data = Unread
  /\ df = NotFetched
  /\ fig = NoFigure
  /\ chart = NoFigure
  /\ stage = "app"

Next == Load \/ Click \/ Rerun

Spec == Init /\ [][Next]_vars

(***************************************************************************)
(* The pipeline on one document: fetch_data's body, then lines 132-143.    *)
(***************************************************************************)
PipeRange == DATA_URLS[1].key

PipeInit ==
  /\ session_state = Store(PipeRange)
  /\ buttons = {}
  /\ queued = FALSE
  /\ cache = [k \in Keys |-> Miss]
  /\ body_runs = [k \in Keys |-> 0]
  /\ call = NoCall
  /\ event = [type |-> "start", button |-> NoButton]
  /\ first_result = [k \in Keys |-> Miss]
  /\ doc \in Docs
  /\ data = Unread
  /\ df = NotFetched
  /\ fig = NoFigure
  /\ chart = NoFigure
  /\ stage = "input"

PipeFetch ==
  /\ stage = "input"
  /\ data' = fetch_body(doc).data
  /\ df' = fetch_body(doc).result
  /\ stage' = "fetched"
  /\ UNCHANGED <<session_state, buttons, queued, cache, body_runs, call,
                 event, first_result, doc, fig, chart>>

PipeShow ==
  /\ stage = "fetched"
  /\ df.kind # "raise"
  /\ \E s \in show_plot(df, PipeRange) :
       /\ fig' = s.fig
       /\ chart' = s.chart
  /\ stage' = "shown"
  /\ UNCHANGED <<session_state, buttons, queued, cache, body_runs, call,
                 event, first_result, doc, data, df>>

PipeNext == PipeFetch \/ PipeShow

PipeSpec == PipeInit /\ [][PipeNext]_vars

(***************************************************************************)
(* Properties of the pipeline (checked under PipeSpec).                    *)
(***************************************************************************)
\* The body of fetch_data ran on doc.
Fetched == stage \in {"fetched", "shown"}

\* The request succeeded and the page has a third table.
TableSelected == doc.status = "ok" /\ Len(doc.tables) >= MinTables

\* The frame of line 52 exists: there are data rows, and the longest has
\* six cells after the offset.
Aligned ==
  /\ TableSelected
  /\ data # <<>>
  /\ \E i \in 1..Len(data) : Len(data[i]) = ColumnOffset + Len(expected_columns)
  /\ \A i \in 1..Len(data) : Len(data[i]) <= ColumnOffset + Len(expected_columns)

\* The parsed records, the input of the filter: row i of data from its
\* third cell on, a missing field being the missing cell.
Field(i, n) ==
  IF ColumnOffset + n <= Len(data[i]) THEN data[i][ColumnOffset + n] ELSE NoneCell

\* The epicenter (field 2) has the five characters of the token in a row.
HasToken(i) ==
  LET e == Field(i, 2)
  IN  /\ e # NoneCell
      /\ \E k \in 1..Len(e) :
           /\ k + 4 <= Len(e)
           /\ e[k] = 920 /\ e[k + 1] = 942 /\ e[k + 2] = 961
           /\ e[k + 3] = 945 /\ e[k + 4] = 962

\* The depth (field 5) is a decimal literal.
DepthPresent(i) == ParseDec(Field(i, 5)).ok

\* The depth is a decimal literal of a value under 100.
DepthUnderBound(i) ==
  LET p == ParseDec(Field(i, 5))
  IN  p.ok /\ p.m < 100 * Pow10(p.e)

\* Record i of the input is row j of the returned frame.
IsRow(i, j) ==
  /\ df.rows[j].index = i - 1
  /\ \A n \in 1..Len(expected_columns) : df.rows[j].c[n] = Field(i, n)

\* C1: the filter step returns exactly the parsed records whose epicenter
\* contains the token (case-sensitively) and whose depth parses to a
\* value strictly under 100, each once and in document order.
C1_FilterKeepsExactlyMatching ==
  (Fetched /\ Aligned) =>
    /\ df.kind = "df"
    /\ \A j \in 1..Len(df.rows) : \E i \in 1..Len(data) : IsRow(i, j)
    /\ \A j, k \in 1..Len(df.rows) :
         j < k => df.rows[j].index < df.rows[k].index
    /\ \A i \in 1..Len(data) :
         (\E j \in 1..Len(df.rows) : IsRow(i, j))
           <=> (HasToken(i) /\ DepthUnderBound(i))

\* A batch with a record at depth exactly 100 next to the token, a record
\* that is kept, and so a record that is dropped.
C1_Witness ==
  /\ Fetched /\ Aligned
  /\ \E i \in 1..Len(data) :
       HasToken(i) /\ ParseDec(Field(i, 5)) = [ok |-> TRUE, m |-> 100, e |-> 0]
  /\ Len(df.rows) >= 1
  /\ Len(df.rows) < Len(data)

\* C2: a data row whose cell count after the offset is not 6 makes the
\* parse fail as a whole: no frame is returned.
C2_BadWidthFailsBatch ==
  (Fetched /\ TableSelected
     /\ \E i \in 1..Len(data) :
          Len(data[i]) # ColumnOffset + Len(expected_columns))
    => df.kind # "df"

\* C4: with fewer than three tables the body returns its failure value,
\* whatever the tables hold, and no frame.
C4_FewTablesFail ==
  (Fetched /\ doc.status = "ok" /\ Len(doc.tables) < MinTables) =>
    /\ df = ReturnNone("Insufficient tables found on the page.")
    /\ data = Unread

\* A page of two tables, each with a row that would pass the filter.
C4_Witness ==
  /\ Fetched
  /\ doc.status = "ok"
  /\ Len(doc.tables) = 2
  /\ \A t \in 1..2 : doc.tables[t] = DecoyTable
  /\ df.kind = "None"

\* C3: a fit over one or two magnitudes fails: generate_plot returns no
\* figure and no trend curve, and nothing is charted.
C3_FewPointsFail ==
  (stage = "shown" /\ df.kind = "df" /\ Len(df.rows) \in 1..2
     /\ \A j \in 1..Len(df.rows) :
          /\ strptime(df.rows[j].c[1]).ok
          /\ ParseDec(df.rows[j].c[6]).ok)
    => (fig.kind \in {"None", "raise"} /\ fig.trend = <<>> /\ chart = NoFigure)

\* The tr elements of the third table.
SelectedTable == find_all_tr(doc.tables[MinTables])

\* tr number i of the third table has an ordinary (td) cell.
HasTd(i) == \E n \in 1..Len(SelectedTable[i]) : SelectedTable[i][n].tag = "td"

\* Row r of the list data comes from tr number i: its cells are the td
\* cells of that tr, in order, with their text decoded and stripped.
FromTr(r, i) ==
  LET tds == {n \in 1..Len(SelectedTable[i]) : SelectedTable[i][n].tag = "td"}
  IN  /\ Len(data[r]) = Cardinality(tds)
      /\ \A n \in tds :
           data[r][Cardinality({x \in tds : x <= n})]
             = Strip(Decode(SelectedTable[i][n].text))

\* The list data holds, in document order, the tr elements among `from`
\* that have a td cell.
YieldsRowsWithTd(from) ==
  LET kept == {i \in from : HasTd(i)}
  IN  /\ Len(data) = Cardinality(kept)
      /\ \A i \in kept : FromTr(Cardinality({x \in kept : x <= i}), i)

\* C5 as stated: every tr with a td cell is yielded, the first included.
C5_EveryRowWithCells ==
  (Fetched /\ TableSelected) => YieldsRowsWithTd(1..Len(SelectedTable))

\* C5, amended: every tr after the first that has a td cell is yielded,
\* in document order; the first tr is dropped whatever it holds.
C5_EveryRowWithCellsAfterFirst ==
  (Fetched /\ TableSelected) => YieldsRowsWithTd(2..Len(SelectedTable))

\* A table whose first tr is a data row, followed by a tr without td cells
\* and another data row: only the last is yielded.
C5_Witness ==
  /\ Fetched /\ TableSelected
  /\ Len(SelectedTable) = 3
  /\ HasTd(1) /\ ~HasTd(2) /\ HasTd(3)
  /\ Len(data) = 1

\* C6: in a batch that aligns, a record whose depth is not a number does
\* not fail the batch; it is left out, and the records whose depth is a
\* number are kept or dropped by the filter's predicate as usual.
C6_BadDepthIsExcludedNotFatal ==
  (Fetched /\ Aligned /\ \E i \in 1..Len(data) : ~DepthPresent(i)) =>
    /\ df.kind = "df"
    /\ \A i \in 1..Len(data) :
         ~DepthPresent(i) => ~\E j \in 1..Len(df.rows) : IsRow(i, j)
    /\ \A i \in 1..Len(data) :
         DepthPresent(i) =>
           ((\E j \in 1..Len(df.rows) : IsRow(i, j))
              <=> (HasToken(i) /\ DepthUnderBound(i)))

\* A batch with a record next to the token whose depth is "N/A", and a
\* record that is kept.
C6_Witness ==
  /\ Fetched /\ Aligned
  /\ \E i \in 1..Len(data) : HasToken(i) /\ Field(i, 5) = TextNA
  /\ df.kind = "df"
  /\ Len(df.rows) = 1

\* Row j of the returned frame has a timestamp that is not
\* day/month/year hour:minute:second, or a magnitude text that is not a
\* number.
Malformed(j) ==
  \/ ~strptime(df.rows[j].c[1]).ok
  \/ (df.rows[j].c[6] # NoneCell /\ ~ParseDec(df.rows[j].c[6]).ok)

C8_EmptyIsNotFailure ==
  Fetched =>
    /\ (Aligned /\ \A i \in 1..Len(data) : ~(HasToken(i) /\ DepthUnderBound(i)))
         => (df.kind = "df" /\ df.rows = <<>>)
    /\ df.kind = "None" =>
         (doc.status = "error" \/ Len(doc.tables) < MinTables \/ data = <<>>)

\* A batch that aligns and of which no record passes.
C8_Witness ==
  /\ Fetched /\ Aligned
  /\ Len(data) = 2
  /\ df.kind = "df"
  /\ df.rows = <<>>

(***************************************************************************)
(* Properties of the application (checked under Spec).                     *)
(***************************************************************************)
\* session_state.selected_time_range, "absent" before a session's first run.
SelectionOf(ss) == IF HasSelection(ss) THEN Selected(ss) ELSE "absent"

C9_Domain == SelectionOf(session_state) \in ({"absent", None} \cup Keys)

\* A run that changes the selection: a new session starts at None; None
\* becomes the range of the Generate Plot button pressed; a range becomes
\* None when Back to Selection is pressed.
C9_Change ==
  LET old == SelectionOf(session_state)
      new == SelectionOf(session_state')
  IN  old # new =>
        \/ event'.type = "load" /\ new = None
        \/ /\ old = None /\ new \in Keys
           /\ event' = [type |-> "click", button |-> GenerateButton(new)]
        \/ /\ old \in Keys /\ new = None
           /\ event' = [type |-> "click", button |-> BackButton]

\* A run that calls fetch_data does so with the selection it started
\* with, which is a key of DATA_URLS: the lookup of line 24 succeeds.
C9_Call ==
  call' # NoCall =>
    /\ event'.type # "load"
    /\ SelectionOf(session_state) \in Keys
    /\ call'.key = SelectionOf(session_state)
    /\ df'.error # "KeyError"

\* C9: the selection is always None or a key of DATA_URLS, changes only
\* by the two kinds of button, and fetch_data is only called with a key.
C9_SelectionIsNoneOrKey == [] C9_Domain /\ [][C9_Change /\ C9_Call]_vars

\* A round trip: a range was selected, fetch_data was called with it, and
\* Back to Selection has put the selection back to None.
C9_Witness ==
  /\ SelectionOf(session_state) = None
  /\ event = [type |-> "click", button |-> BackButton]
  /\ call.key \in Keys
  /\ queued

\* C10: the body of fetch_data runs at most once per time range, and every
\* call returns what the first call with that range returned.
C10_BodyRunsOncePerRange ==
  \A k \in Keys :
    /\ body_runs[k] <= 1
    /\ call.key = k => df = first_result[k]

=============================================================================
